---- MODULE Spec2Model ----
(***************************************************************************)
(* Khamsa blog (src/khamsa_blog/app.py): the JSON post store, the slug     *)
(* generator, the image uploader, the admin session flag, the feedback     *)
(* table and the route handlers, as a state machine.                       *)
(*                                                                         *)
(* Text is a sequence of one-character strings, so that lower(), strip(),  *)
(* re.sub(), int() and the f-string of unique_slug are computed and not    *)
(* assumed.                                                                *)
(***************************************************************************)
EXTENDS Integers, Sequences, FiniteSets, TLC

VARIABLES
    posts,      \* posts.json: the persisted list of post records (a missing
                \* file reads as [], load_posts creates it so)
    uploads,    \* the files of static/uploads (their names)
    admin,      \* session["admin"], per session
    feedbacks,  \* the rows of the feedbacks table
    next_fid,   \* the table's AUTO_INCREMENT counter
    clock,      \* datetime.utcnow(), as a counter
    issued,     \* the ids new_post has given out, in order
    resp,       \* the last request and its response
    reqs        \* the requests in flight (concurrent handlers)

vars == <<posts, uploads, admin, feedbacks, next_fid, clock, issued, resp, reqs>>

----------------------------------------------------------------------------
(* Bounds of the model: the posts of a collection (Max...Posts), the posts  *)
(* ever created (Max...Clock) and the feedback rows ever inserted, for each *)
(* specification.                                                          *)

MaxPosts == 2
MaxClock == 3
MaxUploadPosts == 2
MaxUploadClock == 3
MaxAuthPosts == 1
MaxAuthFeedbacks == 1
MaxFeedbacks == 2
MaxListPosts == 8
MaxSlugPosts == 3
MaxConcPosts == 2
MaxConcClock == 2
MaxRacePosts == 2

(* Program constants *)

PER_PAGE == 6
ADMIN_PASSWORD == "change-this"
ALLOWED_EXT == { <<".", "j", "p", "g">>, <<".", "j", "p", "e", "g">>,
                 <<".", "p", "n", "g">>, <<".", "w", "e", "b", "p">> }

----------------------------------------------------------------------------
(* Text *)

UpperChars == << "A", "B", "C", "D", "E", "F", "G", "H", "I", "J", "K", "L", "M",
                 "N", "O", "P", "Q", "R", "S", "T", "U", "V", "W", "X", "Y", "Z" >>
LowerChars == << "a", "b", "c", "d", "e", "f", "g", "h", "i", "j", "k", "l", "m",
                 "n", "o", "p", "q", "r", "s", "t", "u", "v", "w", "x", "y", "z" >>
DigitChars == << "0", "1", "2", "3", "4", "5", "6", "7", "8", "9" >>

Range(f) == { f[i] : i \in DOMAIN f }

\* str.lower(), one character
LowerChar(c) ==
    IF c \in Range(UpperChars)
    THEN LowerChars[CHOOSE i \in DOMAIN UpperChars : UpperChars[i] = c]
    ELSE c

\* str.lower()
Lower(s) == [i \in DOMAIN s |-> LowerChar(s[i])]

IsSpace(c) == c \in {" ", "\t", "\n"}

RECURSIVE LStrip(_)
LStrip(s) == IF s # <<>> /\ IsSpace(Head(s)) THEN LStrip(Tail(s)) ELSE s

RECURSIVE RStrip(_)
RStrip(s) ==
    IF s # <<>> /\ IsSpace(s[Len(s)]) THEN RStrip(SubSeq(s, 1, Len(s) - 1)) ELSE s

\* str.strip()
Strip(s) == RStrip(LStrip(s))

\* the class [a-z0-9] of slugify's pattern
IsSlugChar(c) == c \in Range(LowerChars) \cup Range(DigitChars)

\* re.sub(r"[^a-z0-9]+", "-", text): inRun says a run is being replaced
RECURSIVE SubRuns(_, _)
SubRuns(s, inRun) ==
    IF s = <<>> THEN <<>>
    ELSE IF IsSlugChar(Head(s)) THEN <<Head(s)>> \o SubRuns(Tail(s), FALSE)
    ELSE IF inRun THEN SubRuns(Tail(s), TRUE)
    ELSE <<"-">> \o SubRuns(Tail(s), TRUE)

RECURSIVE LStripHyphen(_)
LStripHyphen(s) ==
    IF s # <<>> /\ Head(s) = "-" THEN LStripHyphen(Tail(s)) ELSE s

RECURSIVE RStripHyphen(_)
RStripHyphen(s) ==
    IF s # <<>> /\ s[Len(s)] = "-"
    THEN RStripHyphen(SubSeq(s, 1, Len(s) - 1)) ELSE s

\* str.strip("-")
StripHyphens(s) == RStripHyphen(LStripHyphen(s))

\* str(i) of a natural number
RECURSIVE Str(_)
Str(i) ==
    IF i < 10 THEN <<DigitChars[i + 1]>>
    ELSE Str(i \div 10) \o <<DigitChars[(i % 10) + 1]>>

\* `q in text` of Python: q is a substring of text
Contains(text, q) ==
    \E i \in 1..(Len(text) - Len(q) + 1) : SubSeq(text, i, i + Len(q) - 1) = q

----------------------------------------------------------------------------
(* Utilities *)

\* slugify(text); tok is what secrets.token_hex(4) returns
slugify(text, tok) ==
    LET t == StripHyphens(SubRuns(Strip(Lower(text)), FALSE))
    IN  IF t = <<>> THEN tok ELSE t

\* existing = {p["slug"]: p["id"] for p in posts}: the last post of a slug wins
ExistingHas(ps, slug) == \E i \in DOMAIN ps : ps[i].slug = slug
ExistingId(ps, slug) ==
    LET last == CHOOSE i \in DOMAIN ps :
                    /\ ps[i].slug = slug
                    /\ \A j \in DOMAIN ps : ps[j].slug = slug => j <= i
    IN  ps[last].id

\* the while loop of unique_slug; ignore is {} for ignore_id=None, {pid} else
RECURSIVE UniqueSlugLoop(_, _, _, _, _)
UniqueSlugLoop(ps, base_slug, slug, i, ignore) ==
    IF ExistingHas(ps, slug) /\ ExistingId(ps, slug) \notin ignore
    THEN UniqueSlugLoop(ps, base_slug, base_slug \o <<"-">> \o Str(i), i + 1, ignore)
    ELSE slug

\* unique_slug without the ignore_id test
UniqueSlugNoIgnore(ps, base_slug, ignore) ==
    UniqueSlugLoop(ps, base_slug, base_slug, 2, {})

\* unique_slug whose loop tests `== ignore_id` instead of `!= ignore_id`
RECURSIVE UniqueSlugWrongLoop(_, _, _, _, _)
UniqueSlugWrongLoop(ps, base_slug, slug, i, ignore) ==
    IF ExistingHas(ps, slug) /\ ExistingId(ps, slug) \in ignore
    THEN UniqueSlugWrongLoop(ps, base_slug, base_slug \o <<"-">> \o Str(i), i + 1, ignore)
    ELSE slug

UniqueSlugWrongTest(ps, base_slug, ignore) ==
    UniqueSlugWrongLoop(ps, base_slug, base_slug, 2, ignore)

\* unique_slug(posts, base_slug, ignore_id)
unique_slug(ps, base_slug, ignore) ==
    UniqueSlugLoop(ps, base_slug, base_slug, 2, ignore)

MaxOf(S) == CHOOSE m \in S : \A x \in S : x <= m

\* next_id counting the posts instead of taking the maximum
NextIdByLen(ps) == Len(ps) + 1

\* next_id(posts)
next_id(ps) ==
    IF ps # <<>> THEN MaxOf({ ps[i].id : i \in DOMAIN ps }) + 1 ELSE 1


\* is_admin with the default of session.get turned around
IsAdminDefaultTrue(s) == TRUE

\* is_admin()
is_admin(s) == admin[s]

\* os.path.splitext(filename)[1]: from the last dot, unless only dots precede it
SplitExt(name) ==
    LET dots == { i \in DOMAIN name : name[i] = "." }
    IN  IF dots = {} THEN <<>>
        ELSE LET d == MaxOf(dots)
             IN  IF \A i \in 1..(d - 1) : name[i] = "." THEN <<>>
                 ELSE SubSeq(name, d, Len(name))

\* save_image(file): file is the uploaded file's name, <<>> when there is none;
\* nametok is secrets.token_hex(8). Gives the name returned and the files
\* written. secure_filename keeps the letters, digits and dots used here.
save_image(file, nametok) ==
    IF file = <<>> THEN [name |-> <<>>, written |-> {}]
    ELSE LET ext == Lower(SplitExt(file))
         IN  IF ext \notin ALLOWED_EXT THEN [name |-> <<>>, written |-> {}]
             ELSE LET newname == nametok \o ext
                  IN  [name |-> newname, written |-> {newname}]

\* `not title or len(content) < 10`, on the stripped fields
InvalidPost(title, content) == title = <<>> \/ Len(content) < 10

\* visible.sort / posts.sort(key=created_at, reverse=True): stable, descending
RECURSIVE InsertDesc(_, _)
InsertDesc(sorted, p) ==
    IF sorted = <<>> THEN <<p>>
    ELSE IF Head(sorted).created_at >= p.created_at
         THEN <<Head(sorted)>> \o InsertDesc(Tail(sorted), p)
         ELSE <<p>> \o sorted

RECURSIVE SortDesc(_)
SortDesc(ps) ==
    IF ps = <<>> THEN <<>>
    ELSE InsertDesc(SortDesc(SubSeq(ps, 1, Len(ps) - 1)), ps[Len(ps)])

\* ps[start:end] of Python (0-based, end exclusive)
Slice(ps, start, end) ==
    IF start >= Len(ps) THEN <<>>
    ELSE SubSeq(ps, start + 1, IF end < Len(ps) THEN end ELSE Len(ps))

\* the listing of index that shows every post to everybody
VisibleAll(ps, isadm) == ps

\* visible = posts if is_admin() else [p for p in posts if p["published"]]
Visible(ps, isadm) ==
    IF isadm THEN ps ELSE LET pub(p) == p.published IN SelectSeq(ps, pub)

\* the posts index renders: q and page are the raw query parameters
IndexItems(ps, isadm, q, page) ==
    LET qq == Lower(Strip(q))
        pg == IF page > 1 THEN page ELSE 1
        matches(p) == Contains(Lower(p.title), qq) \/ Contains(Lower(p.content), qq)
        vis == Visible(ps, isadm)
        found == IF qq # <<>> THEN SelectSeq(vis, matches) ELSE vis
    IN  Slice(SortDesc(found), (pg - 1) * PER_PAGE, pg * PER_PAGE)

\* the post view_post renders for a slug, <<>> when it aborts with 404
ViewItems(ps, isadm, slug) ==
    LET hits == { i \in DOMAIN ps : ps[i].slug = slug }
    IN  IF hits = {} THEN <<>>
        ELSE LET post == ps[CHOOSE i \in hits : \A j \in hits : i <= j]
             IN  IF ~post.published /\ ~isadm THEN <<>> ELSE <<post>>

\* the list new_post saves: title and content are the stripped fields
NewPostList(ps, title, content, published, cover, now, tok) ==
    Append(ps, [ id |-> next_id(ps),
                 title |-> title,
                 slug |-> unique_slug(ps, slugify(title, tok), {}),
                 content |-> content,
                 cover_image |-> cover,
                 published |-> published,
                 created_at |-> now ])

\* the list edit_post saves for the post at index i: the fields are assigned
\* first, the slug is computed on the list so changed
EditPostList(ps, i, title, content, published, cover, tok) ==
    LET set == [ps EXCEPT ![i] = [@ EXCEPT !.title = title,
                                            !.content = content,
                                            !.published = published,
                                            !.cover_image =
                                                IF cover # <<>> THEN cover ELSE @]]
    IN  [set EXCEPT ![i].slug = unique_slug(set, slugify(title, tok), {ps[i].id})]

\* new_posts = [p for p in posts if p["id"] != pid]
DeletePostList(ps, pid) == LET keep(p) == p.id # pid IN SelectSeq(ps, keep)

\* next((p for p in posts if p["id"] == pid), None), as the set of its index
FindById(ps, pid) ==
    LET hits == { i \in DOMAIN ps : ps[i].id = pid }
    IN  IF hits = {} THEN {} ELSE { CHOOSE i \in hits : \A j \in hits : i <= j }

----------------------------------------------------------------------------
(* Feedback *)

\* int(rating) of Python on a non-empty text: an optional sign, then digits;
\* <<>> stands for ValueError, <<n>> for the value n
RECURSIVE DigitsValue(_, _)
DigitsValue(s, acc) ==
    IF s = <<>> THEN acc
    ELSE DigitsValue(Tail(s),
             10 * acc + (CHOOSE d \in 0..9 : DigitChars[d + 1] = Head(s)))

ParseInt(text) ==
    LET t == Strip(text)
        signed == t # <<>> /\ Head(t) \in {"+", "-"}
        digits == IF signed THEN Tail(t) ELSE t
    IN  IF digits = <<>> \/ \E i \in DOMAIN digits : digits[i] \notin Range(DigitChars)
        THEN <<>>
        ELSE IF signed /\ Head(t) = "-" THEN << 0 - DigitsValue(digits, 0) >>
             ELSE << DigitsValue(digits, 0) >>

\* the rating stored without the range test
RatingValNoRange(rating) ==
    IF rating = <<>> THEN {} ELSE { ParseInt(rating)[i] : i \in DOMAIN ParseInt(rating) }

\* rating_val of feedback: {} is None (NULL), {n} the integer n
RatingVal(rating) ==
    IF rating = <<>> THEN {}
    ELSE LET parsed == ParseInt(rating)
         IN  IF parsed = <<>> THEN {}
             ELSE IF parsed[1] < 1 \/ parsed[1] > 5 THEN {} ELSE {parsed[1]}

\* `not name or not message or len(message) < 3`, on the stripped fields
InvalidFeedback(name, message) ==
    name = <<>> \/ message = <<>> \/ Len(message) < 3

----------------------------------------------------------------------------
(* State *)

Sessions == {"s1", "s2"}
Requests == {"r1", "r2"}

\* the last request and its response: the handler, the session, the outcome,
\* what is rendered, and the request's subject (the post edit_post and
\* delete_post find, the form feedback reads, the query of index and view_post)
Resp(op, s, status, items, subject) ==
    [op |-> op, sess |-> s, status |-> status, items |-> items, subject |-> subject]

Idle == [pc |-> "idle", op |-> "none", pid |-> 0, title |-> <<>>,
         content |-> <<>>, local |-> <<>>, status |-> "none"]

Init ==
    /\ posts = <<>>
    /\ uploads = {}
    /\ admin = [s \in Sessions |-> FALSE]
    /\ feedbacks = <<>>
    /\ next_fid = 1
    /\ clock = 0
    /\ issued = <<>>
    /\ resp = Resp("none", "s1", "none", <<>>, <<>>)
    /\ reqs = [r \in Requests |-> Idle]

----------------------------------------------------------------------------
(* Route handlers, one request at a time *)

\* POST /login
login(s, password) ==
    /\ IF password = ADMIN_PASSWORD
       THEN /\ admin' = [admin EXCEPT ![s] = TRUE]
            /\ resp' = Resp("login", s, "redirect_dashboard", <<>>, <<>>)
       ELSE /\ admin' = admin
            /\ resp' = Resp("login", s, "wrong_password", <<>>, <<>>)
    /\ UNCHANGED <<posts, uploads, feedbacks, next_fid, clock, issued, reqs>>

\* GET /logout
logout(s) ==
    /\ admin' = [admin EXCEPT ![s] = FALSE]
    /\ resp' = Resp("logout", s, "redirect_index", <<>>, <<>>)
    /\ UNCHANGED <<posts, uploads, feedbacks, next_fid, clock, issued, reqs>>

\* GET /
index(s, q, page) ==
    /\ resp' = Resp("index", s, "ok", IndexItems(posts, is_admin(s), q, page),
                    <<[q |-> q, page |-> page]>>)
    /\ UNCHANGED <<posts, uploads, admin, feedbacks, next_fid, clock, issued, reqs>>

\* GET /post/<slug>
view_post(s, slug) ==
    /\ LET items == ViewItems(posts, is_admin(s), slug)
       IN  resp' = Resp("view_post", s,
                        IF items = <<>> THEN "not_found" ELSE "ok", items, <<slug>>)
    /\ UNCHANGED <<posts, uploads, admin, feedbacks, next_fid, clock, issued, reqs>>

\* POST /feedback
feedback(s, name, email, rating, message) ==
    LET n == Strip(name)
        e == Strip(email)
        m == Strip(message)
        form == <<[name |-> name, email |-> email, rating |-> rating,
                   message |-> message]>>
    IN  /\ IF InvalidFeedback(n, m)
           THEN /\ resp' = Resp("feedback", s, "validation_error", <<>>, form)
                /\ UNCHANGED <<feedbacks, next_fid>>
           ELSE /\ feedbacks' = Append(feedbacks,
                       [ id |-> next_fid, name |-> n, email |-> e,
                         rating |-> RatingVal(Strip(rating)), message |-> m,
                         created_at |-> clock ])
                /\ next_fid' = next_fid + 1
                /\ resp' = Resp("feedback", s, "redirect_index", <<>>, form)
        /\ UNCHANGED <<posts, uploads, admin, clock, issued, reqs>>

\* GET /admin
dashboard(s) ==
    /\ IF ~is_admin(s)
       THEN resp' = Resp("dashboard", s, "redirect_login", <<>>, <<>>)
       ELSE resp' = Resp("dashboard", s, "ok", SortDesc(posts), <<>>)
    /\ UNCHANGED <<posts, uploads, admin, feedbacks, next_fid, clock, issued, reqs>>

\* GET /admin/feedbacks
view_feedbacks(s, page) ==
    /\ IF ~is_admin(s)
       THEN resp' = Resp("view_feedbacks", s, "redirect_login", <<>>, <<>>)
       ELSE LET pg == IF page > 1 THEN page ELSE 1
            IN  resp' = Resp("view_feedbacks", s, "ok",
                             Slice(SortDesc(feedbacks), (pg - 1) * 12, pg * 12), <<>>)
    /\ UNCHANGED <<posts, uploads, admin, feedbacks, next_fid, clock, issued, reqs>>

\* POST /admin/feedbacks/delete/<fid>
delete_feedback(s, fid) ==
    /\ IF ~is_admin(s)
       THEN /\ resp' = Resp("delete_feedback", s, "redirect_login", <<>>, <<>>)
            /\ feedbacks' = feedbacks
       ELSE /\ LET keep(row) == row.id # fid IN feedbacks' = SelectSeq(feedbacks, keep)
            /\ resp' = Resp("delete_feedback", s, "redirect_feedbacks", <<>>, <<>>)
    /\ UNCHANGED <<posts, uploads, admin, next_fid, clock, issued, reqs>>

\* POST /admin/new
new_post(s, title, content, published, file, tok, nametok) ==
    /\ IF ~is_admin(s)
       THEN /\ resp' = Resp("new_post", s, "redirect_login", <<>>, <<>>)
            /\ UNCHANGED <<posts, uploads, clock, issued>>
       ELSE LET t == Strip(title)
                c == Strip(content)
                cover == save_image(file, nametok)
            IN  /\ uploads' = uploads \cup cover.written
                /\ IF InvalidPost(t, c)
                   THEN /\ resp' = Resp("new_post", s, "validation_error", <<>>, <<>>)
                        /\ UNCHANGED <<posts, clock, issued>>
                   ELSE /\ posts' = NewPostList(posts, t, c, published, cover.name,
                                                clock + 1, tok)
                        /\ clock' = clock + 1
                        /\ issued' = Append(issued, next_id(posts))
                        /\ resp' = Resp("new_post", s, "redirect_dashboard", <<>>, <<>>)
    /\ UNCHANGED <<admin, feedbacks, next_fid, reqs>>

\* POST /admin/edit/<pid>
edit_post(s, pid, title, content, published, file, tok, nametok) ==
    /\ IF ~is_admin(s)
       THEN /\ resp' = Resp("edit_post", s, "redirect_login", <<>>, <<>>)
            /\ UNCHANGED <<posts, uploads>>
       ELSE IF FindById(posts, pid) = {}
       THEN /\ resp' = Resp("edit_post", s, "not_found", <<>>, <<>>)
            /\ UNCHANGED <<posts, uploads>>
       ELSE LET i == CHOOSE j \in FindById(posts, pid) : TRUE
                t == Strip(title)
                c == Strip(content)
                cover == save_image(file, nametok)
            IN  /\ uploads' = uploads \cup cover.written
                /\ IF InvalidPost(t, c)
                   THEN /\ resp' = Resp("edit_post", s, "validation_error",
                                        <<>>, <<posts[i]>>)
                        /\ posts' = posts
                   ELSE /\ posts' = EditPostList(posts, i, t, c, published,
                                                 cover.name, tok)
                        /\ resp' = Resp("edit_post", s, "redirect_dashboard",
                                        <<>>, <<posts[i]>>)
    /\ UNCHANGED <<admin, feedbacks, next_fid, clock, issued, reqs>>

\* POST /admin/delete/<pid>
delete_post(s, pid) ==
    /\ IF ~is_admin(s)
       THEN /\ resp' = Resp("delete_post", s, "redirect_login", <<>>, <<>>)
            /\ posts' = posts
       ELSE IF Len(DeletePostList(posts, pid)) = Len(posts)
       THEN /\ resp' = Resp("delete_post", s, "not_found", <<>>, <<>>)
            /\ posts' = posts
       ELSE /\ posts' = DeletePostList(posts, pid)
            /\ resp' = Resp("delete_post", s, "redirect_dashboard", <<>>,
                            LET hit(p) == p.id = pid IN SelectSeq(posts, hit))
    /\ UNCHANGED <<uploads, admin, feedbacks, next_fid, clock, issued, reqs>>

----------------------------------------------------------------------------
(* Inputs of the requests *)

NoFile == <<>>
ContentShort == <<"t", "i", "n", "y">>
ContentOk == <<"h", "e", "l", "l", "o", " ", "w", "o", "r", "l", "d">>
Titles == { <<"a">>, <<" ", "A", "!", "2">>, <<"!">> }
\* the (title, content) pairs submitted: the valid ones, an empty title and a
\* content that is too short
PostForms == { <<t, ContentOk>> : t \in Titles }
                 \cup { << <<" ">>, ContentOk >>, << <<"a">>, ContentShort >> }
SlugTokens == { <<"0", "f", "3", "a", "9", "c", "1", "e">>,
                <<"d", "e", "a", "d", "b", "e", "e", "f">> }
NameTok1 == <<"0", "1", "2", "3", "4", "5", "6", "7",
              "8", "9", "a", "b", "c", "d", "e", "f">>
NameTok2 == <<"f", "e", "d", "c", "b", "a", "9", "8",
              "7", "6", "5", "4", "3", "2", "1", "0">>
NameTokens == {NameTok1, NameTok2}
\* the tokens slugify may draw for a title: it draws one only when the title
\* has no letter or digit
TokensFor(title) ==
    IF \E i \in DOMAIN title : IsSlugChar(LowerChar(title[i]))
    THEN {<<>>} ELSE SlugTokens
Pids == 1..MaxClock

----------------------------------------------------------------------------
(* The blog, one admin session, one request at a time *)

Next ==
    \/ login("s1", ADMIN_PASSWORD)
    \/ \E f \in PostForms : \E tok \in TokensFor(f[1]) :
          /\ new_post("s1", f[1], f[2], TRUE, NoFile, tok, NameTok1)
          /\ Len(posts') <= MaxPosts /\ clock' <= MaxClock
    \/ \E pid \in Pids, f \in PostForms : \E tok \in TokensFor(f[1]) :
          edit_post("s1", pid, f[1], f[2], TRUE, NoFile, tok, NameTok1)
    \/ \E pid \in Pids : delete_post("s1", pid)

Spec == Init /\ [][Next]_vars

----------------------------------------------------------------------------
(* The admin's post forms with cover images *)

FilePng == <<"p", ".", "P", "N", "G">>
FileExe == <<"x", ".", "e", "x", "e">>
Files == {NoFile, FilePng, FileExe}
UploadForms == { << <<"a">>, ContentOk >>, << <<" ">>, ContentOk >>,
                 << <<"a">>, ContentShort >> }

NextUpload ==
    \/ login("s1", ADMIN_PASSWORD)
    \/ \E f \in UploadForms, pub \in BOOLEAN, file \in Files, nametok \in NameTokens :
          /\ new_post("s1", f[1], f[2], pub, file, <<>>, nametok)
          /\ Len(posts') <= MaxUploadPosts /\ clock' <= MaxUploadClock
    \/ \E pid \in Pids, f \in UploadForms, pub \in BOOLEAN, file \in Files,
          nametok \in NameTokens :
          edit_post("s1", pid, f[1], f[2], pub, file, <<>>, nametok)
    \/ \E pid \in Pids : delete_post("s1", pid)

SpecUpload == Init /\ [][NextUpload]_vars

----------------------------------------------------------------------------
(* Two sessions against the admin area *)

FeedbackOk == [name |-> <<"A", "l">>, email |-> <<>>, rating |-> <<"4">>,
               message |-> <<"h", "e", "y">>]

NextAuth ==
    \/ \E s \in Sessions, pw \in {ADMIN_PASSWORD, "guess", ""} : login(s, pw)
    \/ \E s \in Sessions : logout(s)
    \/ \E s \in Sessions : dashboard(s)
    \/ \E s \in Sessions : view_feedbacks(s, 1)
    \/ \E s \in Sessions, fid \in 1..MaxAuthFeedbacks : delete_feedback(s, fid)
    \/ \E s \in Sessions :
          /\ feedback(s, FeedbackOk.name, FeedbackOk.email, FeedbackOk.rating,
                      FeedbackOk.message)
          /\ next_fid' <= MaxAuthFeedbacks + 1
    \/ \E s \in Sessions :
          /\ new_post(s, <<"a">>, ContentOk, TRUE, FilePng, <<>>, NameTok1)
          /\ Len(posts') <= MaxAuthPosts /\ clock' <= MaxAuthPosts + 1
    \/ \E s \in Sessions, pid \in Pids :
          edit_post(s, pid, <<"a">>, ContentOk, FALSE, NoFile, <<>>, NameTok1)
    \/ \E s \in Sessions, pid \in Pids : delete_post(s, pid)

SpecAuth == Init /\ [][NextAuth]_vars

----------------------------------------------------------------------------
(* The feedback form and the admin's feedback list *)

FormNames == { <<" ">>, <<"A", "l">> }
FormEmails == { <<>>, <<"a", "@", "b">> }
FormRatings == { <<>>, <<"4">>, <<" ", "5", " ">>, <<"7">>, <<"0">>, <<"x">>,
                 <<"-", "1">> }
FormMessages == { <<>>, <<" ", "h", "i", " ">>, <<"h", "e", "y", " ">> }

NextFeedback ==
    \/ login("s1", ADMIN_PASSWORD)
    \/ \E n \in FormNames, e \in FormEmails, r \in FormRatings, m \in FormMessages :
          /\ feedback("s1", n, e, r, m)
          /\ next_fid' <= MaxFeedbacks + 1
    \/ view_feedbacks("s1", 1)
    \/ \E fid \in 1..MaxFeedbacks : delete_feedback("s1", fid)

SpecFeedback == Init /\ [][NextFeedback]_vars

----------------------------------------------------------------------------
(* Readers and the admin browsing a collection the admin has built *)

TitleHello == <<"H", "e", "l", "l", "o", " ", "W", "o", "r", "l", "d">>
TitleDraft == <<"D", "r", "a", "f", "t">>
TitleAbout == <<"A", "b", "o", "u", "t">>
ContentPlain == <<"s", "o", "m", "e", " ", "c", "o", "n", "t", "e", "n", "t">>

\* the n-th post the admin creates: every third is about something else, the
\* others name the world in the title or in the content
ListTitle(n) ==
    IF n % 3 = 1 THEN TitleHello ELSE IF n % 3 = 2 THEN TitleDraft ELSE TitleAbout
ListContent(n) == IF n % 3 = 2 THEN ContentOk ELSE ContentPlain

\* the collection after new_post has run once per flag, in order
RECURSIVE Build(_)
Build(flags) ==
    IF flags = <<>> THEN <<>>
    ELSE LET n == Len(flags)
         IN  NewPostList(Build(SubSeq(flags, 1, n - 1)), ListTitle(n), ListContent(n),
                         flags[n], <<>>, n, <<>>)

ListCollections ==
    UNION { { Build(flags) : flags \in [1..n -> BOOLEAN] } : n \in 0..MaxListPosts }

Queries == { <<>>, <<" ", "W", "O", "R", "L", "D", " ">> }
ListSlugs == { <<"h", "e", "l", "l", "o", "-", "w", "o", "r", "l", "d">>,
               <<"h", "e", "l", "l", "o", "-", "w", "o", "r", "l", "d", "-", "2">>,
               <<"d", "r", "a", "f", "t">>, <<"n", "o", "p", "e">> }

InitList ==
    /\ posts \in ListCollections
    /\ uploads = {}
    /\ admin = [s \in Sessions |-> FALSE]
    /\ feedbacks = <<>>
    /\ next_fid = 1
    /\ clock = Len(posts)
    /\ issued = [i \in DOMAIN posts |-> i]
    /\ resp = Resp("none", "s1", "none", <<>>, <<>>)
    /\ reqs = [r \in Requests |-> Idle]

NextList ==
    \/ \E pw \in {ADMIN_PASSWORD, "guess"} : login("s1", pw)
    \/ logout("s1")
    \/ \E q \in Queries, page \in 0..3 : index("s1", q, page)
    \/ \E slug \in ListSlugs : view_post("s1", slug)

SpecList == InitList /\ [][NextList]_vars

----------------------------------------------------------------------------
(* unique_slug on the collections the store can hold *)

SlugA == <<"a">>
SlugB == <<"b">>
SlugPool == { SlugA, SlugA \o <<"-", "2">>, SlugA \o <<"-", "3">>,
              SlugA \o <<"-", "4">>, SlugB }
SlugIds == 1..MaxSlugPosts

SlugPost(id, slug) ==
    [ id |-> id, title |-> slug, slug |-> slug, content |-> ContentOk,
      cover_image |-> <<>>, published |-> TRUE, created_at |-> id ]

\* the collections of at most MaxSlugPosts posts, in any order and with any
\* ids and slugs that are pairwise distinct, as the store keeps them
SlugCollections ==
    UNION { { [i \in 1..n |-> SlugPost(ids[i], slugs[i])] :
                ids \in { f \in [1..n -> SlugIds] :
                            \A i, j \in 1..n : i # j => f[i] # f[j] },
                slugs \in { f \in [1..n -> SlugPool] :
                            \A i, j \in 1..n : i # j => f[i] # f[j] } } :
            n \in 0..MaxSlugPosts }

InitSlug ==
    /\ posts \in SlugCollections
    /\ uploads = {}
    /\ admin = [s \in Sessions |-> FALSE]
    /\ feedbacks = <<>>
    /\ next_fid = 1
    /\ clock = 0
    /\ issued = <<>>
    /\ resp = Resp("none", "s1", "none", <<>>, <<>>)
    /\ reqs = [r \in Requests |-> Idle]

\* a call unique_slug(posts, base_slug, ignore_id)
UniqueSlugCall(base_slug, ignore) ==
    /\ resp' = Resp("unique_slug", "s1", "ok",
                    <<unique_slug(posts, base_slug, ignore)>>,
                    <<[base_slug |-> base_slug, ignore |-> ignore]>>)
    /\ UNCHANGED <<posts, uploads, admin, feedbacks, next_fid, clock, issued, reqs>>

NextSlug ==
    \E base_slug \in {SlugA, SlugB, SlugA \o <<"-", "2">>},
       ignore \in {{}} \cup { {id} : id \in 1..(MaxSlugPosts + 1) } :
       UniqueSlugCall(base_slug, ignore)

SpecSlug == InitSlug /\ [][NextSlug]_vars

----------------------------------------------------------------------------
(* Two admin requests in flight: load_posts and save_posts are the steps *)

\* a handler that reads posts.json again when it saves
LoadedAtSave(r) == posts

\* the local variable posts of the handler of request r, as load_posts gave
\* it; a handler that has finished holds none
Loaded(r) == reqs[r].local

\* new_post writing its post after the file's current content
SavedByNewAppended(r, tok) ==
    LET list == NewPostList(Loaded(r), reqs[r].title, reqs[r].content, TRUE, <<>>,
                            clock + 1, tok)
    IN  Append(posts, list[Len(list)])

\* the list new_post hands to save_posts: the loaded list with the post appended
SavedByNew(r, tok) ==
    NewPostList(Loaded(r), reqs[r].title, reqs[r].content, TRUE, <<>>, clock + 1, tok)

InFlight(r, op, pid, title, content, local, pc, status) ==
    [reqs EXCEPT ![r] = [pc |-> pc, op |-> op, pid |-> pid, title |-> title,
                         content |-> content, local |-> local, status |-> status]]

\* new_post up to its save_posts: the gate, load_posts, the form, the validation
ConcNewLoad(r, s, title, content) ==
    /\ reqs[r].pc = "idle"
    /\ is_admin(s)
    /\ LET t == Strip(title)
           c == Strip(content)
       IN  reqs' = IF InvalidPost(t, c)
                   THEN InFlight(r, "new_post", 0, t, c, <<>>, "done", "validation_error")
                   ELSE InFlight(r, "new_post", 0, t, c, posts, "loaded", "none")
    /\ UNCHANGED <<posts, uploads, admin, feedbacks, next_fid, clock, issued, resp>>

\* new_post from the slug to save_posts and the redirect
ConcNewSave(r, tok) ==
    /\ reqs[r].pc = "loaded"
    /\ reqs[r].op = "new_post"
    /\ posts' = SavedByNew(r, tok)
    /\ clock' = clock + 1
    /\ issued' = Append(issued, next_id(Loaded(r)))
    /\ reqs' = [reqs EXCEPT ![r].pc = "done", ![r].status = "redirect_dashboard",
                             ![r].local = <<>>]
    /\ UNCHANGED <<uploads, admin, feedbacks, next_fid, resp>>

\* edit_post up to its save_posts
ConcEditLoad(r, s, pid, title, content) ==
    /\ reqs[r].pc = "idle"
    /\ is_admin(s)
    /\ LET t == Strip(title)
           c == Strip(content)
       IN  reqs' = IF FindById(posts, pid) = {}
                   THEN InFlight(r, "edit_post", pid, t, c, <<>>, "done", "not_found")
                   ELSE IF InvalidPost(t, c)
                   THEN InFlight(r, "edit_post", pid, t, c, <<>>, "done", "validation_error")
                   ELSE InFlight(r, "edit_post", pid, t, c, posts, "loaded", "none")
    /\ UNCHANGED <<posts, uploads, admin, feedbacks, next_fid, clock, issued, resp>>

\* edit_post from the assignments to save_posts and the redirect
ConcEditSave(r, tok) ==
    /\ reqs[r].pc = "loaded"
    /\ reqs[r].op = "edit_post"
    /\ LET i == CHOOSE j \in FindById(Loaded(r), reqs[r].pid) : TRUE
       IN  posts' = EditPostList(Loaded(r), i, reqs[r].title, reqs[r].content, TRUE,
                                 <<>>, tok)
    /\ reqs' = [reqs EXCEPT ![r].pc = "done", ![r].status = "redirect_dashboard",
                             ![r].local = <<>>]
    /\ UNCHANGED <<uploads, admin, feedbacks, next_fid, clock, issued, resp>>

\* delete_post up to its save_posts
ConcDeleteLoad(r, s, pid) ==
    /\ reqs[r].pc = "idle"
    /\ is_admin(s)
    /\ reqs' = IF Len(DeletePostList(posts, pid)) = Len(posts)
               THEN InFlight(r, "delete_post", pid, <<>>, <<>>, <<>>, "done", "not_found")
               ELSE InFlight(r, "delete_post", pid, <<>>, <<>>, posts, "loaded", "none")
    /\ UNCHANGED <<posts, uploads, admin, feedbacks, next_fid, clock, issued, resp>>

\* delete_post: save_posts(new_posts) and the redirect
ConcDeleteSave(r) ==
    /\ reqs[r].pc = "loaded"
    /\ reqs[r].op = "delete_post"
    /\ posts' = DeletePostList(Loaded(r), reqs[r].pid)
    /\ reqs' = [reqs EXCEPT ![r].pc = "done", ![r].status = "redirect_dashboard",
                             ![r].local = <<>>]
    /\ UNCHANGED <<uploads, admin, feedbacks, next_fid, clock, issued, resp>>

\* the response of request r is sent, and its worker takes a new request
ConcReturn(r) ==
    /\ reqs[r].pc = "done"
    /\ reqs' = [reqs EXCEPT ![r] = Idle]
    /\ UNCHANGED <<posts, uploads, admin, feedbacks, next_fid, clock, issued, resp>>

ConcNewForms == { << <<"a">>, ContentOk >>, << <<"b">>, ContentOk >>,
                  << <<"a">>, ContentShort >> }
ConcEditForms == { << <<"a">>, ContentOk >>, << <<" ">>, ContentOk >> }
ConcPids == 1..MaxConcClock

NextConc ==
    \/ login("s1", ADMIN_PASSWORD)
    \/ \E r \in Requests, f \in ConcNewForms : ConcNewLoad(r, "s1", f[1], f[2])
    \/ \E r \in Requests :
          /\ ConcNewSave(r, <<>>)
          /\ Len(posts') <= MaxConcPosts /\ clock' <= MaxConcClock
    \/ \E r \in Requests, pid \in ConcPids, f \in ConcEditForms :
          ConcEditLoad(r, "s1", pid, f[1], f[2])
    \/ \E r \in Requests : ConcEditSave(r, <<>>)
    \/ \E r \in Requests, pid \in ConcPids : ConcDeleteLoad(r, "s1", pid)
    \/ \E r \in Requests : ConcDeleteSave(r)
    \/ \E r \in Requests : ConcReturn(r)

SpecConc == Init /\ [][NextConc]_vars

----------------------------------------------------------------------------
(* Two admin requests racing on a collection, and nothing else *)

\* the collection after n posts titled "a" have been created
RECURSIVE BuildSame(_)
BuildSame(n) ==
    IF n = 0 THEN <<>>
    ELSE NewPostList(BuildSame(n - 1), <<"a">>, ContentOk, TRUE, <<>>, n, <<>>)

InitRace ==
    /\ posts \in { BuildSame(n) : n \in 0..MaxRacePosts }
    /\ uploads = {}
    /\ admin = [s \in Sessions |-> s = "s1"]
    /\ feedbacks = <<>>
    /\ next_fid = 1
    /\ clock = Len(posts)
    /\ issued = [i \in DOMAIN posts |-> i]
    /\ resp = Resp("login", "s1", "redirect_dashboard", <<>>, <<>>)
    /\ reqs = [r \in Requests |-> Idle]

RacePids == 1..(MaxRacePosts + 1)

NextRace ==
    \/ \E r \in Requests, f \in ConcNewForms : ConcNewLoad(r, "s1", f[1], f[2])
    \/ \E r \in Requests : ConcNewSave(r, <<>>)
    \/ \E r \in Requests, pid \in RacePids, f \in ConcEditForms :
          ConcEditLoad(r, "s1", pid, f[1], f[2])
    \/ \E r \in Requests : ConcEditSave(r, <<>>)
    \/ \E r \in Requests, pid \in RacePids : ConcDeleteLoad(r, "s1", pid)
    \/ \E r \in Requests : ConcDeleteSave(r)

SpecRace == InitRace /\ [][NextRace]_vars

----------------------------------------------------------------------------
(* Properties of the post store under one request at a time *)

\* the successful response of new_post, edit_post and delete_post
Succeeded(op) == resp.op = op /\ resp.status = "redirect_dashboard"

\* C1: after any sequence of successful create, edit and delete requests run
\* one at a time from the empty collection, no two persisted posts have the
\* same slug.
C1_SlugsUnique ==
    \A i, j \in DOMAIN posts : i # j => posts[i].slug # posts[j].slug

\* C1 witness: an edit has just succeeded and two posts carry the same title,
\* so the second of them needed a suffix.
C1_Witness ==
    /\ Succeeded("edit_post")
    /\ \E i, j \in DOMAIN posts : i # j /\ posts[i].title = posts[j].title

Edited(ps) == ps[CHOOSE i \in DOMAIN ps : ps[i].id = resp.subject[1].id]

\* the k-th slug unique_slug tries: base, base-2, base-3, ...
Candidate(base, k) == IF k = 1 THEN base ELSE base \o <<"-">> \o Str(k)

HasSlugChar(title) == \E i \in DOMAIN title : IsSlugChar(LowerChar(title[i]))

\* C9: an edit keeps the post's own slug: an edit-post request that resubmits
\* the post's current title (with valid content) leaves the post's slug
\* unchanged.
C9_EditKeepsSlug ==
    Succeeded("edit_post") /\ Edited(posts).title = resp.subject[1].title
        => Edited(posts).slug = resp.subject[1].slug

\* What edit_post does on a resubmitted title that has a letter or digit:
\* the slug stays when every earlier candidate of base, base-2, base-3, ...
\* is still used by another post, and in every case the post gets a
\* candidate no other post uses.
EditKeepsSlugUnlessFreed ==
    [][ LET old == resp'.subject[1]
            new == Edited(posts)'
            base == slugify(old.title, <<>>)
            usedByOther(slug) ==
                \E i \in DOMAIN posts : posts[i].id # old.id /\ posts[i].slug = slug
        IN  Succeeded("edit_post")' /\ new.title = old.title /\ HasSlugChar(old.title)
            => /\ \E k \in 1..(Len(posts) + 1) : new.slug = Candidate(base, k)
               /\ ~usedByOther(new.slug)
               /\ \A k \in 1..(Len(posts) + 1) :
                     /\ old.slug = Candidate(base, k)
                     /\ \A m \in 1..(k - 1) : usedByOther(Candidate(base, m))
                     => new.slug = old.slug ]_vars

\* An edit resubmitted the title of a post that carries a suffixed slug, and
\* the slug stayed.
EditKeptSuffixedSlug ==
    /\ Succeeded("edit_post")
    /\ Edited(posts).title = resp.subject[1].title
    /\ HasSlugChar(resp.subject[1].title)
    /\ Edited(posts).slug = resp.subject[1].slug
    /\ Edited(posts).slug # slugify(resp.subject[1].title, <<>>)

----------------------------------------------------------------------------
(* Properties of the forms with cover images *)

\* C5: when a create-post or edit-post request fails validation, no data is
\* mutated: the persisted collection is as before and no file has been added
\* to the upload directory, also when the request carried a cover image with
\* an allowed extension.
C5_FailedValidationMutatesNothing ==
    [][ resp'.op \in {"new_post", "edit_post"} /\ resp'.status = "validation_error"
        => posts' = posts /\ uploads' = uploads ]_vars

----------------------------------------------------------------------------
(* Properties of the admin gate *)

AdminOps == {"dashboard", "view_feedbacks", "delete_feedback",
             "new_post", "edit_post", "delete_post"}

\* C3: an admin-only operation (create, edit or delete a post, delete a
\* feedback row, view the dashboard or the feedback list) takes effect only
\* while the session's admin flag is set; without the flag the request is
\* redirected to login and neither the post collection nor the feedback table
\* changes. The flag becomes set only by a login whose password equals the
\* configured admin password, and logout clears it.
C3_AdminOnly ==
    [][ /\ resp'.op \in AdminOps /\ ~admin[resp'.sess]
           => /\ resp'.status = "redirect_login"
              /\ resp'.items = <<>>
              /\ posts' = posts
              /\ feedbacks' = feedbacks
              /\ uploads' = uploads
        /\ resp'.op \in AdminOps /\ admin[resp'.sess]
           => resp'.status # "redirect_login"
        /\ \A s \in Sessions :
              /\ ~admin[s] /\ admin'[s] => login(s, ADMIN_PASSWORD)
              /\ admin[s] /\ ~admin'[s] => logout(s)
              /\ \A pw \in {"guess", ""} : login(s, pw) => admin'[s] = admin[s]
              /\ logout(s) => ~admin'[s] ]_vars

\* C3 witness: a session without the flag asked to delete an existing post
\* while the other session was logged in, and was sent to login.
C3_Witness ==
    /\ resp.op = "delete_post"
    /\ resp.status = "redirect_login"
    /\ ~admin[resp.sess]
    /\ \E s \in Sessions : admin[s]
    /\ posts # <<>>
    /\ feedbacks # <<>>

----------------------------------------------------------------------------
(* Properties of the feedback table *)

\* the rating the table must hold for a submitted rating text
ExpectedRating(text) ==
    IF text = <<"4">> THEN {4} ELSE IF text = <<" ", "5", " ">> THEN {5} ELSE {}

\* C7: every row of the feedback table has a non-empty name, a message of at
\* least 3 characters and a rating that is null or an integer from 1 to 5; a
\* submission with a missing name or a missing or too-short message inserts
\* no row, and one whose rating is unparsable or outside 1-5 is inserted with
\* rating null.
C7_FeedbackRows ==
    [][ /\ \A i \in DOMAIN feedbacks' :
              /\ feedbacks'[i].name # <<>>
              /\ Len(feedbacks'[i].message) >= 3
              /\ feedbacks'[i].rating \in {{}} \cup { {n} : n \in 1..5 }
        /\ resp'.op = "feedback" =>
              LET form == resp'.subject[1]
              IN  IF \/ form.name = <<" ">>
                     \/ form.message \in { <<>>, <<" ", "h", "i", " ">> }
                  THEN /\ feedbacks' = feedbacks
                       /\ resp'.status = "validation_error"
                  ELSE /\ Len(feedbacks') = Len(feedbacks) + 1
                       /\ SubSeq(feedbacks', 1, Len(feedbacks)) = feedbacks
                       /\ feedbacks'[Len(feedbacks')].rating
                              = ExpectedRating(form.rating) ]_vars

\* C7 witness: a submission with rating "7" has been inserted with rating null.
C7_Witness ==
    /\ resp.op = "feedback"
    /\ resp.status = "redirect_index"
    /\ resp.subject[1].rating = <<"7">>
    /\ feedbacks # <<>>
    /\ feedbacks[Len(feedbacks)].rating = {}

----------------------------------------------------------------------------
(* Properties of the public pages *)

\* the posts a request may be shown: all of them with the admin flag, the
\* published ones without
MayBeShown(p) == admin[resp.sess] \/ p.published

\* the posts of the built collection that name the world
NamesWorld(p) == p.title = TitleHello \/ p.content = ContentOk

\* the number of items of page pg (from 1) of n items
OnPage(n, pg) ==
    IF n <= (pg - 1) * PER_PAGE THEN 0
    ELSE IF n >= pg * PER_PAGE THEN PER_PAGE ELSE n - (pg - 1) * PER_PAGE

\* C4: a request without the admin flag never receives an unpublished post:
\* the listing (with or without a search term, on any page) holds published
\* posts only, and viewing an unpublished post by its slug gives not-found; a
\* request with the admin flag sees the unpublished posts in both.
C4_UnpublishedForAdminsOnly ==
    /\ resp.op = "index" =>
          LET query == resp.subject[1]
              pg == IF query.page > 1 THEN query.page ELSE 1
              wanted == { i \in DOMAIN posts :
                            /\ MayBeShown(posts[i])
                            /\ query.q = <<>> \/ NamesWorld(posts[i]) }
          IN  /\ \A k \in DOMAIN resp.items :
                    \E i \in wanted : resp.items[k] = posts[i]
              /\ Len(resp.items) = OnPage(Cardinality(wanted), pg)
    /\ resp.op = "view_post" =>
          LET holders == { i \in DOMAIN posts : posts[i].slug = resp.subject[1] }
          IN  IF \E i \in holders : MayBeShown(posts[i])
              THEN /\ resp.status = "ok"
                   /\ \E i \in holders : resp.items = <<posts[i]>>
              ELSE resp.status = "not_found" /\ resp.items = <<>>

\* C4 witness: a reader without the flag is on page 2 of the listing, which
\* shows a post, while the collection holds an unpublished post.
C4_Witness ==
    /\ resp.op = "index"
    /\ ~admin[resp.sess]
    /\ resp.subject[1].page = 2
    /\ resp.items # <<>>
    /\ \E i \in DOMAIN posts : ~posts[i].published

----------------------------------------------------------------------------
(* Properties of unique_slug *)

----------------------------------------------------------------------------
(* Properties of requests in flight *)

Finished(r, op) ==
    reqs[r].pc = "done" /\ reqs[r].op = op /\ reqs[r].status = "redirect_dashboard"

\* C8: concurrent writers overwrite each other's changes (last writer wins).
\* When a request saves, what another request has saved since this one
\* loaded is gone: a post the file holds that the saving request did not load
\* is absent afterwards, and a post it loaded that the file no longer holds
\* is back (the post the request itself creates, edits or deletes aside).
C8_LastWriterWins ==
    [][ \A r \in Requests :
          reqs[r].pc = "loaded" /\ reqs'[r].pc = "done" =>
             LET snapshot == Range(reqs[r].local)
                 own(p) == IF reqs[r].op = "new_post"
                           THEN p = posts'[Len(posts')]
                           ELSE p.id = reqs[r].pid
             IN  /\ \A p \in Range(posts) \ snapshot :
                       ~own(p) => p \notin Range(posts')
                 /\ \A p \in snapshot \ Range(posts) :
                       ~own(p) => p \in Range(posts') ]_vars

\* C8 witness: the two requests each created a post, with different titles,
\* both reported success, and the persisted collection has no post with the
\* title of one of them.
C8_Witness ==
    \E r1, r2 \in Requests :
        /\ r1 # r2
        /\ Finished(r1, "new_post")
        /\ Finished(r2, "new_post")
        /\ reqs[r1].title # reqs[r2].title
        /\ \A i \in DOMAIN posts : posts[i].title # reqs[r1].title

\* C10: under every interleaving of the load_posts and save_posts steps of
\* concurrent create, edit and delete requests, the persisted collection
\* never holds two posts with the same id or two posts with the same slug.
C10_NoDuplicatesUnderRaces ==
    \A i, j \in DOMAIN posts :
        i < j => posts[i].id # posts[j].id /\ posts[i].slug # posts[j].slug

\* C10 witness: two creations with the same title ran on the same loaded
\* list: both reported success and were given the same id, and the
\* collection holds one post of that title.
C10_Witness ==
    /\ \A r \in Requests : Finished(r, "new_post") /\ reqs[r].title = <<"a">>
    /\ issued = <<1, 1>>
    /\ Len(posts) = 1

====
